---- MODULE Spec2Model ----
(***************************************************************************)
(* A model of the mana runtime core: the heap of data with its root        *)
(* counting handles and its reverse-sweep garbage collector                *)
(* (src/src/datum), and the sigil database (src/src/sigil.rs).             *)
(*                                                                         *)
(* A datum is identified by the address of its Box<DatumInner>.  The heap  *)
(* vector `data` is the sequence of the addresses of the boxes it owns,    *)
(* `mem` is the contents of memory at each address, and `handles` counts   *)
(* the Datum values (handles) the caller holds per address.  A handle or   *)
(* a stored pointer whose address is not owned by the heap is dangling.    *)
(*                                                                         *)
(* Dereferencing a dangling address is undefined behaviour.  The model     *)
(* keeps three of its outcomes: the access falls into memory nothing uses  *)
(* (no effect on any datum), the process is aborted, or, when the          *)
(* allocator has handed the address to a later Box, the access reaches     *)
(* the datum that now lives there.                                         *)
(***************************************************************************)
EXTENDS Integers, Sequences, FiniteSets, TLC

(***************************************************************************)
(* Bounds of the model.                                                    *)
(***************************************************************************)
MaxAllocs  == 4   \* number of allocate calls in a run
MaxHandles == 2   \* handles the caller holds per address
MaxPtrs    == 1   \* length of the pointers slice given to allocate
MaxNameLen == 2   \* length of a name given to intern
MaxInterns == 4   \* number of intern calls in a run
MaxSpellSigil == 1  \* largest sigil in a SpellId given to Spells::insert
MaxArity   == 1   \* largest arity in a SpellId given to Spells::insert
MaxSpells  == 2   \* number of spells in the spell database
MaxLocals  == 2   \* length of the local_variables slice of a frame
MaxLocal   == 2   \* largest Local an instruction names
MaxArgs    == 2   \* length of the arguments of an invoke instruction

\* The addresses of the boxes: a run needs no more of them than it makes
\* allocate calls.
Addr == 1 .. MaxAllocs

\* The enchantment and auxiliary arguments allocate is called with.
Payloads == {[enchantment |-> 0, auxiliary |-> <<>>],
             [enchantment |-> 1, auxiliary |-> <<7>>]}

Range(s) == {s[i] : i \in 1 .. Len(s)}

\* The sequences over S of length at most n.
SeqUpTo(S, n) == UNION {[1 .. k -> S] : k \in 0 .. n}

VARIABLES
    data,      \* Heap::data: the addresses of the boxes, in vector order
    mem,       \* the DatumInner at each address (Blank where no box lives)
    handles,   \* number of Datum handles the caller holds, per address
    top,       \* number of addresses the allocator has handed out so far
    allocs,    \* number of allocate calls so far
    born,      \* per address: which allocate call made the datum there (0: none)
    aborted,   \* the process has panicked or crashed
    run,       \* number of collect_garbage calls in a row that led here
    pre_data,  \* `data` when the last collect_garbage was called
    pre_mem,   \* `mem` when the last collect_garbage was called
    stat,      \* CollectStatistics.data_freed of the last collect_garbage
    by_id,     \* Sigils::by_id
    by_name,   \* Sigils::by_name
    interned,  \* the intern calls so far, in order: the name given and
               \* the sigil returned
    looked,    \* the last Sigils::name call, if no intern followed it: the
               \* sigil given and the Option returned
    spells,    \* Spells::spells
    inserted,  \* the last Spells::insert call, if any: the id and spell
               \* given, the Result returned, and `spells` before the call
    program_counter,      \* the ProgramCounter given to interpret_instruction
    local_variables,      \* the local_variables slice given to it: the
                          \* address each Datum handle refers to
    pre_local_variables,  \* local_variables when it was called
    returned,  \* the CallStackMutation it returned, if it has returned
    panicked   \* it panicked

heapVars  == <<data, mem, handles, top, allocs, born, aborted>>
histVars  == <<run, pre_data, pre_mem, stat>>
sigilVars == <<by_id, by_name, interned, looked>>
spellVars == <<spells, inserted>>
frameVars == <<program_counter, local_variables, pre_local_variables,
               returned, panicked>>
vars      == <<data, mem, handles, top, allocs, born, aborted, run, pre_data,
               pre_mem, stat, by_id, by_name, interned, looked, spells,
               inserted, program_counter, local_variables,
               pre_local_variables, returned, panicked>>

(***************************************************************************)
(* DatumInner and Datum (src/src/datum/mod.rs).                            *)
(*                                                                         *)
(* roots is a usize.  A value v of the usize is represented by the         *)
(* integer congruent to v modulo 2^64 of least magnitude, so that          *)
(* usize::MAX, which 0 - 1 wraps to, is -1; `roots > 0` on the usize is    *)
(* then `roots # 0`.                                                       *)
(***************************************************************************)
DatumInner(mark, roots, enchantment, pointers, auxiliary) ==
    [mark |-> mark, roots |-> roots, enchantment |-> enchantment,
     pointers |-> pointers, auxiliary |-> auxiliary]

\* Memory at an address that holds no box.
Blank == DatumInner(FALSE, 0, 0, <<>>, <<>>)

\* The heap owns the box at address a.
Owned(d, a) == a \in Range(d)

\* Heap::construct: the pointers are copied as raw addresses, the roots of
\* the pointees are not touched.
construct(enchantment, pointers, auxiliary) ==
    DatumInner(FALSE, 0, enchantment, pointers, auxiliary)

\* A handle that forgets to count itself.
enroot_uncounted(m, a) == m

\* Datum::enroot: roots.set(roots.get() + 1).
enroot(m, a) == [m EXCEPT ![a].roots = @ + 1]

\* Drop for Datum on a live datum: roots.set(roots.get() - 1).  With
\* roots = 0 the subtraction overflows: a build with overflow checks
\* panics, a build without them wraps to usize::MAX.
drop(m, a) ==
    IF m[a].roots = 0
    THEN {[mem |-> m, aborted |-> TRUE],
          [mem |-> [m EXCEPT ![a].roots = -1], aborted |-> FALSE]}
    ELSE {[mem |-> [m EXCEPT ![a].roots = @ - 1], aborted |-> FALSE]}

\* An access through a dangling address: it is absorbed by unused memory,
\* or the process dies.
Dangling(m) == {[mem |-> m, aborted |-> FALSE], [mem |-> m, aborted |-> TRUE]}

(***************************************************************************)
(* Heap::collect_garbage (src/src/datum/heap.rs).                          *)
(***************************************************************************)

\* Step 3.1: mark the direct pointees.  A pointee whose box the heap does
\* not own (any more) is written through a dangling pointer.
RECURSIVE mark_pointees(_, _, _, _)
mark_pointees(d, m, ps, k) ==
    IF k > Len(ps) THEN m
    ELSE mark_pointees(d,
                       IF Owned(d, ps[k]) THEN [m EXCEPT ![ps[k]].mark = TRUE]
                                          ELSE m,
                       ps, k + 1)

\* A pop that releases the pointees of the freed datum, as dropping a
\* reference-counted pointer would.
pop_releasing(d, m) ==
    LET a == d[Len(d)]
    IN  [data |-> SubSeq(d, 1, Len(d) - 1),
         mem  |-> [b \in Addr |->
                     IF b = a THEN Blank
                     ELSE IF \E k \in 1 .. Len(m[a].pointers) :
                                m[a].pointers[k] = b
                          THEN [m[b] EXCEPT !.roots = @ - 1]
                          ELSE m[b]]]

\* data.pop(): the last box of the vector is removed and freed.
pop(d, m) ==
    [data |-> SubSeq(d, 1, Len(d) - 1),
     mem  |-> [m EXCEPT ![d[Len(d)]] = Blank]]

\* A loop body that frees the datum it looks at with data.swap_remove(i).
collect_step_swap_remove(h, i) ==
    LET a  == h.data[i]
        n  == Len(h.data)
        m1 == IF h.mem[a].roots # 0
              THEN [h.mem EXCEPT ![a].mark = TRUE]
              ELSE h.mem
    IN  IF m1[a].mark
        THEN [h EXCEPT
                !.mem = [mark_pointees(h.data, m1, m1[a].pointers, 1)
                            EXCEPT ![a].mark = FALSE],
                !.ub  = h.ub \/ \E k \in 1 .. Len(m1[a].pointers) :
                                    ~Owned(h.data, m1[a].pointers[k])]
        ELSE [h EXCEPT
                !.data = [k \in 1 .. n - 1 |->
                            IF k = i THEN h.data[n] ELSE h.data[k]],
                !.mem = [m1 EXCEPT ![a] = Blank],
                !.data_freed = @ + 1]

\* A loop body that frees the datum it looks at with data.remove(i).
collect_step_remove(h, i) ==
    LET a  == h.data[i]
        m1 == IF h.mem[a].roots # 0
              THEN [h.mem EXCEPT ![a].mark = TRUE]
              ELSE h.mem
    IN  IF m1[a].mark
        THEN [h EXCEPT
                !.mem = [mark_pointees(h.data, m1, m1[a].pointers, 1)
                            EXCEPT ![a].mark = FALSE],
                !.ub  = h.ub \/ \E k \in 1 .. Len(m1[a].pointers) :
                                    ~Owned(h.data, m1[a].pointers[k])]
        ELSE [h EXCEPT
                !.data = SubSeq(h.data, 1, i - 1)
                            \o SubSeq(h.data, i + 1, Len(h.data)),
                !.mem = [m1 EXCEPT ![a] = Blank],
                !.data_freed = @ + 1]

\* One iteration of the loop, at index i (1-based) of the vector.
collect_step(h, i) ==
    LET a  == h.data[i]
        m1 == IF h.mem[a].roots # 0
              THEN [h.mem EXCEPT ![a].mark = TRUE]
              ELSE h.mem
    IN  IF m1[a].mark
        THEN [h EXCEPT
                !.mem = [mark_pointees(h.data, m1, m1[a].pointers, 1)
                            EXCEPT ![a].mark = FALSE],
                !.ub  = h.ub \/ \E k \in 1 .. Len(m1[a].pointers) :
                                    ~Owned(h.data, m1[a].pointers[k])]
        ELSE LET p == pop(h.data, m1)
             IN  [h EXCEPT !.data = p.data, !.mem = p.mem,
                           !.data_freed = @ + 1]

\* for i in Iterator::rev(0 .. data.len())
RECURSIVE collect_loop(_, _)
collect_loop(h, i) ==
    IF i = 0 THEN h ELSE collect_loop(collect_step(h, i), i - 1)

collect_garbage(d, m) ==
    collect_loop([data |-> d, mem |-> m, data_freed |-> 0, ub |-> FALSE],
                 Len(d))

(***************************************************************************)
(* Sigils (src/src/sigil.rs).  A Sigil is its u32; by_name, a HashMap      *)
(* keyed by the bytes of the name, is a function on the names it holds.    *)
(***************************************************************************)

\* The names: byte strings.
Names == SeqUpTo({0, 255}, MaxNameLen)

\* `as u32` of a usize: the value modulo 2^32, computed on its 16-bit halves.
AsU32(n) == ((n \div 65536) % 65536) * 65536 + (n % 65536)

\* An intern that numbers the new sigil after pushing its name.
intern_numbered_late(ids, names, name) ==
    IF name \in DOMAIN names
    THEN [by_id |-> ids, by_name |-> names, sigil |-> names[name]]
    ELSE LET sigil == AsU32(Len(Append(ids, name)))
         IN  [by_id   |-> Append(ids, name),
              by_name |-> [n \in DOMAIN names \cup {name} |->
                             IF n = name THEN sigil ELSE names[n]],
              sigil   |-> sigil]

\* An intern that creates the sigil but does not record it under its name.
intern_unrecorded(ids, names, name) ==
    IF name \in DOMAIN names
    THEN [by_id |-> ids, by_name |-> names, sigil |-> names[name]]
    ELSE [by_id |-> Append(ids, name), by_name |-> names,
          sigil |-> AsU32(Len(ids))]

\* Sigils::intern on the database <<ids, names>>: the database afterwards
\* and the sigil returned.
intern(ids, names, name) ==
    IF name \in DOMAIN names
    THEN [by_id |-> ids, by_name |-> names, sigil |-> names[name]]
    ELSE LET sigil == AsU32(Len(ids))
         IN  [by_id   |-> Append(ids, name),
              by_name |-> [n \in DOMAIN names \cup {name} |->
                             IF n = name THEN sigil ELSE names[n]],
              sigil   |-> sigil]

Intern(name) ==
    /\ Len(interned) < MaxInterns
    /\ LET r == intern(by_id, by_name, name)
       IN  /\ by_id' = r.by_id
           /\ by_name' = r.by_name
           /\ interned' = Append(interned, [name |-> name, sigil |-> r.sigil])
    /\ looked' = <<>>
    /\ UNCHANGED <<heapVars, histVars, spellVars, frameVars>>

\* An Option: None is the empty sequence, Some(x) the sequence of x alone.
None    == <<>>
Some(x) == <<x>>

\* A Sigils::name that takes the last sigil of the database for out of range.
Sigils_name_short(ids, sigil) ==
    IF sigil + 1 < Len(ids) THEN Some(ids[sigil + 1]) ELSE None

\* Sigils::name: self.by_id.get(sigil.0 as usize), on the 0-based vector.
Sigils_name(ids, sigil) ==
    IF sigil < Len(ids) THEN Some(ids[sigil + 1]) ELSE None

\* The sigils a caller may pass to name: those the database has issued and
\* some it has not.
SigilArgs == 0 .. MaxInterns

Name(sigil) ==
    /\ looked' = <<[sigil |-> sigil, result |-> Sigils_name(by_id, sigil)]>>
    /\ UNCHANGED <<by_id, by_name, interned, heapVars, histVars, spellVars,
                   frameVars>>

(***************************************************************************)
(* Spells (src/src/spell/mod.rs).  The HashMap is a function from the      *)
(* SpellIds it holds to their Spells.                                      *)
(***************************************************************************)
SpellId(spellbook, spell, arity) ==
    [spellbook |-> spellbook, spell |-> spell, arity |-> arity]

\* The ids insert is called with.
SpellIds == {SpellId(b, n, k) : b \in 0 .. MaxSpellSigil,
                                n \in 0 .. MaxSpellSigil,
                                k \in 0 .. MaxArity}

\* The spells insert is called with.
SpellBodies == {[instructions |-> <<>>, local_variables |-> 0],
                [instructions |-> <<"Return">>, local_variables |-> 1]}

\* Spells::get: self.spells.get(&id).
get(map, id) == IF id \in DOMAIN map THEN Some(map[id]) ELSE None

\* An insert that reports the redefinition but stores the new spell.
insert_overwriting(map, id, spell) ==
    [spells |-> [i \in DOMAIN map \cup {id} |->
                    IF i = id THEN spell ELSE map[i]],
     result |-> IF id \in DOMAIN map THEN "RedefinitionError" ELSE "Ok"]

\* Spells::insert.
insert(map, id, spell) ==
    IF id \in DOMAIN map
    THEN [spells |-> map, result |-> "RedefinitionError"]
    ELSE [spells |-> [i \in DOMAIN map \cup {id} |->
                         IF i = id THEN spell ELSE map[i]],
          result |-> "Ok"]

Insert(id, spell) ==
    /\ id \in DOMAIN spells \/ Cardinality(DOMAIN spells) < MaxSpells
    /\ LET r == insert(spells, id, spell)
       IN  /\ spells' = r.spells
           /\ inserted' = <<[id |-> id, spell |-> spell, result |-> r.result,
                             before |-> spells]>>
    /\ UNCHANGED <<heapVars, histVars, sigilVars, frameVars>>

(***************************************************************************)
(* Instructions (src/src/spell/code.rs) and the program counter            *)
(* (src/src/interpret/call_stack.rs).  A Local and a Sigil are their u32.  *)
(***************************************************************************)
Copy(from, to) == [op |-> "Copy", from |-> from, to |-> to]

InvokeStatic(result, spellbook, spell, arguments) ==
    [op |-> "InvokeStatic", result |-> result, spellbook |-> spellbook,
     spell |-> spell, arguments |-> arguments]

InvokeDynamic(result, spell, receiver, arguments) ==
    [op |-> "InvokeDynamic", result |-> result, spell |-> spell,
     receiver |-> receiver, arguments |-> arguments]

Return(result) == [op |-> "Return", result |-> result]

\* The Locals and Sigils the instructions of a run name.
Local == 0 .. MaxLocal
InstructionSigils == 0 .. MaxSpellSigil

Instruction ==
    {Copy(from, to) : from \in Local, to \in Local}
    \cup {InvokeStatic(result, spellbook, spell, arguments) :
            result \in Local, spellbook \in InstructionSigils,
            spell \in InstructionSigils, arguments \in SeqUpTo(Local, MaxArgs)}
    \cup {InvokeDynamic(result, spell, receiver, arguments) :
            result \in Local, spell \in InstructionSigils,
            receiver \in Local, arguments \in SeqUpTo(Local, MaxArgs)}
    \cup {Return(result) : result \in Local}

ProgramCounter(instructions, next_instruction) ==
    [instructions |-> instructions, next_instruction |-> next_instruction]

\* ProgramCounter::get: None stands for the panic of the expect.
ProgramCounter_get(pc) ==
    IF pc.next_instruction < Len(pc.instructions)
    THEN Some(pc.instructions[pc.next_instruction + 1])
    ELSE None

\* ProgramCounter::jump.
jump(pc, target) == ProgramCounter(pc.instructions, target)

\* A ProgramCounter::advance that stays at the instruction.
advance_stuck(pc) == jump(pc, pc.next_instruction)

\* ProgramCounter::advance.
advance(pc) == jump(pc, pc.next_instruction + 1)

(***************************************************************************)
(* interpret_instruction (src/src/interpret/mod.rs).  A Datum value is the *)
(* address it refers to; cloning one enroots the datum and dropping one    *)
(* takes the root back.  A panic unwinds: the Datum values the function    *)
(* holds at that point are dropped.                                        *)
(***************************************************************************)
CallStackMutation(to, exit, call) == [jump |-> to, exit |-> exit, call |-> call]

Call(callee, arguments, return_into) ==
    [callee |-> callee, arguments |-> arguments, return_into |-> return_into]

\* Drop for Datum, of a handle whose datum is rooted.
drop_rooted(m, a) == (CHOOSE r \in drop(m, a) : ~r.aborted).mem

\* The values of a sequence of Datum handles are dropped, first to last.
RECURSIVE drop_all(_, _, _)
drop_all(m, values, k) ==
    IF k > Len(values) THEN m
    ELSE drop_all(drop_rooted(m, values[k]), values, k + 1)

\* A local!(l) that reads the last local for an index out of range.
local_clamped(m, locals, l) ==
    IF Len(locals) = 0 THEN [ok |-> FALSE, value |-> 0, mem |-> m]
    ELSE LET k == IF l < Len(locals) THEN l + 1 ELSE Len(locals)
         IN  [ok |-> TRUE, value |-> locals[k], mem |-> enroot(m, locals[k])]

\* local!(l): a clone of the handle at index l, or the panic of the expect.
local(m, locals, l) ==
    IF l < Len(locals)
    THEN [ok |-> TRUE, value |-> locals[l + 1], mem |-> enroot(m, locals[l + 1])]
    ELSE [ok |-> FALSE, value |-> 0, mem |-> m]

\* A local!(l, v) that overwrites the handle at index l without dropping it.
local_assign_forgetting(m, locals, l, v) ==
    IF l < Len(locals)
    THEN [ok |-> TRUE, locals |-> [locals EXCEPT ![l + 1] = v], mem |-> m]
    ELSE [ok |-> FALSE, locals |-> locals, mem |-> m]

\* local!(l, v): the handle at index l is dropped and v is moved there, or
\* the panic of the expect.
local_assign(m, locals, l, v) ==
    IF l < Len(locals)
    THEN [ok |-> TRUE, locals |-> [locals EXCEPT ![l + 1] = v],
          mem |-> drop_rooted(m, locals[l + 1])]
    ELSE [ok |-> FALSE, locals |-> locals, mem |-> m]

\* arguments.iter().map(|l| local!(l)).collect(): the clones of the
\* handles at arguments[k..], after those in `values`; a panic drops the
\* clones collected so far.
RECURSIVE collect_locals(_, _, _, _, _)
collect_locals(m, locals, arguments, k, values) ==
    IF k > Len(arguments) THEN [ok |-> TRUE, values |-> values, mem |-> m]
    ELSE LET r == local(m, locals, arguments[k])
         IN  IF r.ok
             THEN collect_locals(r.mem, locals, arguments, k + 1,
                                 Append(values, r.value))
             ELSE [ok |-> FALSE, values |-> <<>>, mem |-> drop_all(m, values, 1)]

\* What a call of interpret_instruction ends in: a CallStackMutation, or a
\* panic.
Returns(mutation, locals, m) ==
    [panicked |-> FALSE, returned |-> Some(mutation),
     local_variables |-> locals, mem |-> m]
Panics(locals, m) ==
    [panicked |-> TRUE, returned |-> None, local_variables |-> locals, mem |-> m]

\* A Copy arm that copies from `to` into `from`.
interpret_copy_reversed(pc, locals, m, i) ==
    LET value == local(m, locals, i.to)
    IN  IF ~value.ok THEN Panics(locals, m)
        ELSE LET set == local_assign(value.mem, locals, i.from, value.value)
             IN  IF ~set.ok
                 THEN Panics(locals, drop_rooted(value.mem, value.value))
                 ELSE Returns(CallStackMutation(advance(pc), None, None),
                              set.locals, set.mem)

\* The Copy arm.
interpret_copy(pc, locals, m, i) ==
    LET value == local(m, locals, i.from)
    IN  IF ~value.ok THEN Panics(locals, m)
        ELSE LET set == local_assign(value.mem, locals, i.to, value.value)
             IN  IF ~set.ok
                 THEN Panics(locals, drop_rooted(value.mem, value.value))
                 ELSE Returns(CallStackMutation(advance(pc), None, None),
                              set.locals, set.mem)

\* An InvokeStatic arm that takes the arity from the instruction's spell.
interpret_invoke_static_arity(pc, locals, m, i) ==
    LET argument_values == collect_locals(m, locals, i.arguments, 1, <<>>)
    IN  IF ~argument_values.ok THEN Panics(locals, argument_values.mem)
        ELSE LET callee == SpellId(i.spellbook, i.spell, i.spell)
                 call   == Call(callee, argument_values.values, i.result)
             IN  Returns(CallStackMutation(advance(pc), None, Some(call)),
                         locals, argument_values.mem)

\* The InvokeStatic arm.
interpret_invoke_static(pc, locals, m, i) ==
    LET argument_values == collect_locals(m, locals, i.arguments, 1, <<>>)
    IN  IF ~argument_values.ok THEN Panics(locals, argument_values.mem)
        ELSE LET callee == SpellId(i.spellbook, i.spell,
                                   Len(argument_values.values))
                 call   == Call(callee, argument_values.values, i.result)
             IN  Returns(CallStackMutation(advance(pc), None, Some(call)),
                         locals, argument_values.mem)

\* An InvokeDynamic arm that does not pass the receiver.
interpret_invoke_dynamic_bare(pc, locals, m, i) ==
    LET receiver_value == local(m, locals, i.receiver)
    IN  IF ~receiver_value.ok THEN Panics(locals, m)
        ELSE LET argument_values ==
                     collect_locals(receiver_value.mem, locals, i.arguments,
                                    1, <<>>)
             IN  IF ~argument_values.ok
                 THEN Panics(locals, drop_rooted(argument_values.mem,
                                                 receiver_value.value))
                 ELSE LET callee ==
                              SpellId(m[receiver_value.value].enchantment,
                                      i.spell, Len(argument_values.values))
                          call == Call(callee, argument_values.values, i.result)
                      IN  Returns(CallStackMutation(advance(pc), None,
                                                    Some(call)),
                                  locals,
                                  drop_rooted(argument_values.mem,
                                              receiver_value.value))

\* The InvokeDynamic arm: receiver_value is cloned into the arguments and
\* dropped when the function returns or unwinds.
interpret_invoke_dynamic(pc, locals, m, i) ==
    LET receiver_value == local(m, locals, i.receiver)
    IN  IF ~receiver_value.ok THEN Panics(locals, m)
        ELSE LET once == enroot(receiver_value.mem, receiver_value.value)
                 argument_values ==
                     collect_locals(once, locals, i.arguments, 1,
                                    <<receiver_value.value>>)
             IN  IF ~argument_values.ok
                 THEN Panics(locals, drop_rooted(argument_values.mem,
                                                 receiver_value.value))
                 ELSE LET callee ==
                              SpellId(m[receiver_value.value].enchantment,
                                      i.spell, Len(argument_values.values))
                          call == Call(callee, argument_values.values, i.result)
                      IN  Returns(CallStackMutation(advance(pc), None,
                                                    Some(call)),
                                  locals,
                                  drop_rooted(argument_values.mem,
                                              receiver_value.value))

\* A Return arm that advances the program counter.
interpret_return_advancing(pc, locals, m, i) ==
    LET value == local(m, locals, i.result)
    IN  IF ~value.ok THEN Panics(locals, m)
        ELSE Returns(CallStackMutation(advance(pc), Some(value.value), None),
                     locals, value.mem)

\* The Return arm.
interpret_return(pc, locals, m, i) ==
    LET value == local(m, locals, i.result)
    IN  IF ~value.ok THEN Panics(locals, m)
        ELSE Returns(CallStackMutation(pc, Some(value.value), None),
                     locals, value.mem)

interpret_instruction(pc, locals, m) ==
    LET fetched == ProgramCounter_get(pc)
    IN  IF fetched = None THEN Panics(locals, m)
        ELSE LET i == fetched[1]
             IN  CASE i.op = "Copy" -> interpret_copy(pc, locals, m, i)
                   [] i.op = "InvokeStatic" ->
                          interpret_invoke_static(pc, locals, m, i)
                   [] i.op = "InvokeDynamic" ->
                          interpret_invoke_dynamic(pc, locals, m, i)
                   [] i.op = "Return" -> interpret_return(pc, locals, m, i)

\* The handles of a sequence of Datum values that refer to address a.
Refs(values, a) == Cardinality({k \in 1 .. Len(values) : values[k] = a})

\* The Datum values a returned CallStackMutation holds.
Carried(ret) ==
    IF ret = None THEN <<>>
    ELSE ret[1].exit \o (IF ret[1].call = None THEN <<>>
                         ELSE ret[1].call[1].arguments)

\* The driver calls interpret_instruction on a frame.
Interpret ==
    /\ ~aborted
    /\ ~panicked
    /\ returned = None
    /\ LET r == interpret_instruction(program_counter, local_variables, mem)
       IN  /\ panicked' = r.panicked
           /\ returned' = r.returned
           /\ local_variables' = r.local_variables
           /\ mem' = r.mem
           /\ handles' = [a \in Addr |-> Refs(r.local_variables, a)
                                         + Refs(Carried(r.returned), a)]
    /\ pre_local_variables' = local_variables
    /\ UNCHANGED <<data, top, allocs, born, aborted, program_counter, histVars,
                   sigilVars, spellVars>>

(***************************************************************************)
(* The operations of the heap and of its handles.                          *)
(***************************************************************************)

\* The addresses Box::new may return: one the allocator has freed, or the
\* next one it has never handed out.
FreeAddrs == {a \in Addr : ~Owned(data, a) /\ a <= top + 1}

\* The addresses the caller holds a handle on.
Held == {a \in Addr : handles[a] > 0}

\* The addresses the caller can name: those it holds a handle on, and those
\* Datum::pointers shows it, through a handle, in a datum of the heap.
RECURSIVE Shown(_)
Shown(S) ==
    LET T == S \cup {p \in Addr : \E a \in S :
                        /\ Owned(data, a)
                        /\ \E k \in 1 .. Len(mem[a].pointers) :
                              mem[a].pointers[k] = p}
    IN  IF T = S THEN S ELSE Shown(T)

Visible == Shown(Held)

\* What is remembered of the last collect_garbage is forgotten by any other
\* operation.
Forget ==
    /\ run' = 0
    /\ pre_data' = <<>>
    /\ pre_mem' = [a \in Addr |-> Blank]
    /\ stat' = 0

\* The process is gone, and its memory with it.
Crash ==
    /\ aborted' = TRUE
    /\ data' = <<>>
    /\ mem' = [a \in Addr |-> Blank]
    /\ handles' = [a \in Addr |-> 0]
    /\ top' = 0
    /\ allocs' = 0
    /\ born' = [a \in Addr |-> 0]
    /\ Forget

Allocate(a, enchantment, pointers, auxiliary) ==
    /\ ~aborted
    /\ allocs < MaxAllocs
    /\ a \in FreeAddrs
    /\ handles[a] < MaxHandles
    /\ data' = Append(data, a)
    /\ mem' = enroot([mem EXCEPT
                        ![a] = construct(enchantment, pointers, auxiliary)], a)
    /\ handles' = [handles EXCEPT ![a] = @ + 1]
    /\ top' = IF a > top THEN a ELSE top
    /\ allocs' = allocs + 1
    /\ born' = [born EXCEPT ![a] = allocs + 1]
    /\ Forget
    /\ UNCHANGED <<aborted, sigilVars, spellVars, frameVars>>

Clone(a) ==
    /\ ~aborted
    /\ a \in Visible
    /\ handles[a] < MaxHandles
    /\ \E r \in IF Owned(data, a)
                THEN {[mem |-> enroot(mem, a), aborted |-> FALSE]}
                ELSE Dangling(mem) :
          IF r.aborted THEN Crash
          ELSE /\ mem' = r.mem
               /\ handles' = [handles EXCEPT ![a] = @ + 1]
               /\ Forget
               /\ UNCHANGED <<data, top, allocs, born, aborted>>
    /\ UNCHANGED <<sigilVars, spellVars, frameVars>>

Drop(a) ==
    /\ ~aborted
    /\ a \in Held
    /\ \E r \in IF Owned(data, a) THEN drop(mem, a) ELSE Dangling(mem) :
          IF r.aborted THEN Crash
          ELSE /\ mem' = r.mem
               /\ handles' = [handles EXCEPT ![a] = @ - 1]
               /\ Forget
               /\ UNCHANGED <<data, top, allocs, born, aborted>>
    /\ UNCHANGED <<sigilVars, spellVars, frameVars>>

Collect ==
    /\ ~aborted
    /\ LET h == collect_garbage(data, mem)
       IN  \E crash \in IF h.ub THEN {FALSE, TRUE} ELSE {FALSE} :
             IF crash THEN Crash
             ELSE /\ data' = h.data
                  /\ mem' = h.mem
                  /\ stat' = h.data_freed
                  /\ pre_data' = data
                  /\ pre_mem' = mem
                  /\ run' = IF run < 2 THEN run + 1 ELSE 2
                  /\ born' = [a \in Addr |->
                                IF Owned(h.data, a) THEN born[a] ELSE 0]
                  /\ UNCHANGED <<handles, top, allocs, aborted>>
    /\ UNCHANGED <<sigilVars, spellVars, frameVars>>

Init ==
    /\ data = <<>>
    /\ mem = [a \in Addr |-> Blank]
    /\ handles = [a \in Addr |-> 0]
    /\ top = 0
    /\ allocs = 0
    /\ born = [a \in Addr |-> 0]
    /\ aborted = FALSE
    /\ run = 0
    /\ pre_data = <<>>
    /\ pre_mem = [a \in Addr |-> Blank]
    /\ stat = 0
    /\ by_id = <<>>
    /\ by_name = <<>>
    /\ interned = <<>>
    /\ looked = <<>>
    /\ spells = <<>>
    /\ inserted = <<>>
    /\ program_counter = [instructions |-> <<>>, next_instruction |-> 0]
    /\ local_variables = <<>>
    /\ pre_local_variables = <<>>
    /\ returned = <<>>
    /\ panicked = FALSE

Next ==
    \/ \E a \in Addr, p \in Payloads, ps \in SeqUpTo(Visible, MaxPtrs) :
         Allocate(a, p.enchantment, ps, p.auxiliary)
    \/ \E a \in Addr : Clone(a)
    \/ \E a \in Addr : Drop(a)
    \/ Collect

Spec == Init /\ [][Next]_vars

\* The heap used through allocate and the handles alone.
NextHandles ==
    \/ \E a \in Addr, p \in Payloads, ps \in SeqUpTo(Visible, MaxPtrs) :
         Allocate(a, p.enchantment, ps, p.auxiliary)
    \/ \E a \in Addr : Clone(a)
    \/ \E a \in Addr : Drop(a)

SpecHandles == Init /\ [][NextHandles]_vars

\* A sigil database in use.
NextSigils == \E name \in Names : Intern(name)

SpecSigils == Init /\ [][NextSigils]_vars

\* The sigil database with its lookups.
NextNames ==
    \/ \E name \in Names : Intern(name)
    \/ \E sigil \in SigilArgs : Name(sigil)

SpecNames == Init /\ [][NextNames]_vars

\* The spell database alone.
NextSpells == \E id \in SpellIds, spell \in SpellBodies : Insert(id, spell)

SpecSpells == Init /\ [][NextSpells]_vars

\* The interpreter alone, called once on a frame.  The heap holds two data
\* of different enchantments; every local of the frame refers to one of
\* them, and each of them is rooted once by every local that refers to it.
FrameData == <<1, 2>>

InitFrame ==
    /\ data = FrameData
    /\ \E locals \in SeqUpTo(Range(FrameData), MaxLocals) :
          /\ local_variables = locals
          /\ handles = [a \in Addr |-> Refs(locals, a)]
          /\ mem = [a \in Addr |->
                      IF a = 1 THEN DatumInner(FALSE, Refs(locals, a), 0, <<>>, <<>>)
                      ELSE IF a = 2
                      THEN DatumInner(FALSE, Refs(locals, a), 1, <<>>, <<7>>)
                      ELSE Blank]
    /\ \E i \in Instruction, n \in 0 .. 1 :
          program_counter = ProgramCounter(<<i>>, n)
    /\ top = 2
    /\ allocs = 2
    /\ born = [a \in Addr |-> IF a \in Range(FrameData) THEN a ELSE 0]
    /\ aborted = FALSE
    /\ run = 0
    /\ pre_data = <<>>
    /\ pre_mem = [a \in Addr |-> Blank]
    /\ stat = 0
    /\ by_id = <<>>
    /\ by_name = <<>>
    /\ interned = <<>>
    /\ looked = <<>>
    /\ spells = <<>>
    /\ inserted = <<>>
    /\ pre_local_variables = <<>>
    /\ returned = None
    /\ panicked = FALSE

NextFrame == Interpret

SpecFrame == InitFrame /\ [][NextFrame]_vars

(***************************************************************************)
(* Reachability in the heap as it was when collect_garbage was called.     *)
(***************************************************************************)

\* The data of heap d with roots > 0.
Rooted(d, m) == {a \in Range(d) : m[a].roots # 0}

\* The data of heap d that the data in S point to.
Pointees(S, d, m) ==
    {p \in Range(d) : \E a \in S : \E k \in 1 .. Len(m[a].pointers) :
                         m[a].pointers[k] = p}

\* The data reachable from S by zero or more pointers edges.
RECURSIVE Closure(_, _, _)
Closure(S, d, m) ==
    LET T == S \cup Pointees(S, d, m)
    IN  IF T = S THEN S ELSE Closure(T, d, m)

Reachable(d, m)   == Closure(Rooted(d, m), d, m)
Unreachable(d, m) == Range(d) \ Reachable(d, m)

\* The data reachable from a rooted datum by one or more pointers edges.
Retained(d, m) == Closure(Pointees(Rooted(d, m), d, m), d, m)

\* The position of address a in the vector d (0 if it is not in it).
Pos(d, a) == IF Owned(d, a) THEN CHOOSE i \in 1 .. Len(d) : d[i] = a ELSE 0

Collected == run > 0

\* C1: a datum with roots > 0 when collect_garbage is called is still in the
\* heap when it returns.
RootSafety ==
    Collected => Rooted(pre_data, pre_mem) \subseteq Range(data)

\* C2: collect_garbage removes exactly the data unreachable from the rooted
\* data, and the data that remain are exactly the reachable ones.
FreesExactlyUnreachable ==
    Collected =>
        /\ Range(pre_data) \ Range(data) = Unreachable(pre_data, pre_mem)
        /\ Range(data) = Reachable(pre_data, pre_mem)

\* I2 for the heap d: every pointer of a datum targets a datum of the heap
\* at a strictly lower position.
BackOnly(d, m) ==
    \A i \in 1 .. Len(d) : \A k \in 1 .. Len(m[d[i]].pointers) :
        \E j \in 1 .. i - 1 : d[j] = m[d[i]].pointers[k]

\* C3: every datum reachable through one or more pointers edges from a
\* datum with roots > 0 is still in the heap after collect_garbage.  It is
\* stated for the calls made on a heap that satisfies I2, the heaps the
\* reverse sweep is designed for.
TransitiveRetention ==
    Collected /\ BackOnly(pre_data, pre_mem) =>
        Retained(pre_data, pre_mem) \subseteq Range(data)

\* C4: data_freed is the number of data that were unreachable from the
\* rooted data when collect_garbage was called.
DataFreedCountsUnreachable ==
    Collected => stat = Cardinality(Unreachable(pre_data, pre_mem))

\* C5: the second of two collect_garbage calls in a row returns
\* data_freed = 0 and leaves the heap as it was.
CollectionIdempotent ==
    run = 2 => stat = 0 /\ data = pre_data /\ mem = pre_mem

\* C6: every pointer stored in a datum of the heap targets a datum that is
\* in the heap at a strictly lower position (I2).
BackOnlyPointers == BackOnly(data, mem)

\* The data that were in the heap when collect_garbage was called and are
\* still in it.
Survivors == Range(pre_data) \cap Range(data)

\* C7: a higher position in the heap means a later allocation (I1), and
\* collect_garbage keeps the relative order of the data that survive it.
AllocationMonotone ==
    /\ \A i, j \in 1 .. Len(data) :
          i < j => born[data[i]] < born[data[j]]
    /\ Collected =>
          \A a, b \in Survivors :
             Pos(pre_data, a) < Pos(pre_data, b) <=> Pos(data, a) < Pos(data, b)

\* C7 witness: a collect_garbage that freed a datum and left two survivors,
\* the older of which had dropped to roots = 0.
AllocationMonotoneWitness ==
    /\ Collected /\ stat > 0 /\ Len(data) >= 2
    /\ pre_mem[data[1]].roots = 0

\* C8: the roots of a datum is the number of handles on it, never below 0,
\* and its mark is clear; allocate makes a datum with roots = 1 and
\* mark = false and leaves the roots of all other data alone, clone adds
\* exactly 1 to roots and drop takes exactly 1 off.
RootsAreHandles ==
    \A a \in Addr :
        IF Owned(data, a)
        THEN mem[a].roots = handles[a] /\ mem[a].roots >= 0 /\ ~mem[a].mark
        ELSE handles[a] = 0

HandleStep ==
    /\ allocs' = allocs + 1 =>
          LET a == data'[Len(data')]
          IN  /\ mem'[a].roots = 1 /\ ~mem'[a].mark
              /\ \A b \in Range(data) : mem'[b].roots = mem[b].roots
    /\ \A a \in Range(data) :
          /\ handles'[a] = handles[a] + 1 => mem'[a].roots = mem[a].roots + 1
          /\ handles'[a] = handles[a] - 1 =>
                mem'[a].roots = mem[a].roots - 1 /\ mem'[a].roots >= 0
          /\ handles'[a] = handles[a] => mem'[a].roots = mem[a].roots

HandleRootAccounting == []RootsAreHandles /\ [][HandleStep]_vars

\* C8 witness: a datum that was cloned, a datum whose only handle was
\* dropped, and a datum allocated with a pointer to another.
HandleRootAccountingWitness ==
    /\ \E a \in Range(data) : mem[a].roots = 2
    /\ \E a \in Range(data) : mem[a].roots = 0
    /\ \E a \in Range(data) : mem[a].pointers # <<>>

\* C9: a datum that survives collect_garbage has the enchantment, pointers,
\* auxiliary and roots it had when collect_garbage was called.
CollectFrame ==
    Collected =>
        \A a \in Survivors :
            /\ mem[a].enchantment = pre_mem[a].enchantment
            /\ mem[a].pointers = pre_mem[a].pointers
            /\ mem[a].auxiliary = pre_mem[a].auxiliary
            /\ mem[a].roots = pre_mem[a].roots

\* C9 witness: collect_garbage freed a datum that pointed to a datum with
\* roots > 0, which survived.
CollectFrameWitness ==
    /\ Collected
    /\ \E f \in Range(pre_data) \ Range(data) : \E s \in Survivors :
          /\ \E k \in 1 .. Len(pre_mem[f].pointers) : pre_mem[f].pointers[k] = s
          /\ pre_mem[s].roots > 0
          /\ pre_mem[s].enchantment = 1


\* C10: two intern calls on one database return equal sigils if and only
\* if they were given equal names, whatever was interned in between.
SigilIdentity ==
    \A i, j \in 1 .. Len(interned) :
        interned[i].sigil = interned[j].sigil
            <=> interned[i].name = interned[j].name

\* C10 witness: a name interned again after two other names were interned.
SigilIdentityWitness ==
    /\ Len(interned) = 4
    /\ interned[4].name = interned[1].name
    /\ interned[2].name # interned[1].name
    /\ interned[3].name # interned[1].name
    /\ interned[3].name # interned[2].name

\* C11: after any intern calls, name(intern(n)) = Some(n) for every name n
\* ever interned, and intern(name(s)) = s for every sigil s the database
\* has issued, without adding an entry to the database.
SigilRoundTrip ==
    /\ \A i \in 1 .. Len(interned) :
          Sigils_name(by_id, interned[i].sigil) = Some(interned[i].name)
    /\ \A i \in 1 .. Len(interned) :
          LET s == interned[i].sigil
              n == Sigils_name(by_id, s)
          IN  /\ n # None
              /\ intern(by_id, by_name, n[1]).sigil = s
              /\ intern(by_id, by_name, n[1]).by_id = by_id
              /\ intern(by_id, by_name, n[1]).by_name = by_name

\* C11 witness: three names in the database, the second of them interned
\* again after the third.
SigilRoundTripWitness ==
    /\ Len(by_id) = 3
    /\ Len(interned) = 4
    /\ interned[4].name = by_id[2]

\* The names interned so far.
InternedNames == {interned[i].name : i \in 1 .. Len(interned)}

\* C12: name(s) is None if and only if s is at least the number of
\* distinct names interned so far; below that number it is the name that
\* intern returned s for.
NameNoneIffOutOfRange ==
    looked # <<>> =>
        LET l == looked[1]
        IN  /\ l.result = None <=> l.sigil >= Cardinality(InternedNames)
            /\ l.sigil < Cardinality(InternedNames) =>
                  \E i \in 1 .. Len(interned) :
                      /\ interned[i].sigil = l.sigil
                      /\ l.result = Some(interned[i].name)

\* C12 witness: with two names interned, name of the first sigil never
\* issued was asked for and None came back.
NameNoneIffOutOfRangeWitness ==
    /\ looked # <<>>
    /\ Cardinality(InternedNames) = 2
    /\ looked[1].sigil = 2
    /\ looked[1].result = None

\* C13: insert of an id the database holds returns RedefinitionError and
\* leaves the database as it was, get of the id still giving the original
\* spell; insert of an id it does not hold returns Ok, after which get of
\* the id gives the inserted spell and get of every other id, differing in
\* spellbook, spell or arity, gives what it gave before.
InsertOnly ==
    inserted # <<>> =>
        LET c == inserted[1]
        IN  IF get(c.before, c.id) # None
            THEN /\ c.result = "RedefinitionError"
                 /\ spells = c.before
                 /\ get(spells, c.id) = get(c.before, c.id)
            ELSE /\ c.result = "Ok"
                 /\ get(spells, c.id) = Some(c.spell)
                 /\ \A other \in SpellIds \ {c.id} :
                       get(spells, other) = get(c.before, other)

\* C13 witness: with two spells in the database, an insert of a different
\* spell under the id of one of them was refused.
InsertOnlyWitness ==
    /\ inserted # <<>>
    /\ inserted[1].result = "RedefinitionError"
    /\ Cardinality(DOMAIN spells) = 2
    /\ inserted[1].spell # spells[inserted[1].id]

(***************************************************************************)
(* One call of interpret_instruction.                                      *)
(***************************************************************************)
\* The instruction the call was given, when the program counter was in
\* bounds.
Fetched == program_counter.instructions[program_counter.next_instruction + 1]
Interpreted(op) ==
    /\ returned # None \/ panicked
    /\ program_counter.next_instruction < Len(program_counter.instructions)
    /\ Fetched.op = op

\* Local l indexes into the locals the call was given.
InRange(l) == l < Len(pre_local_variables)

\* C14: Copy{from, to} with both indices in range leaves local[to]
\* referring to the datum local[from] referred to before and every other
\* local as it was; the mutation jumps to the input program counter
\* advanced by exactly one, with no exit and no call.  This includes
\* from = to.
CopyStep ==
    Interpreted("Copy") /\ InRange(Fetched.from) /\ InRange(Fetched.to) =>
        /\ returned # None
        /\ Len(local_variables) = Len(pre_local_variables)
        /\ local_variables[Fetched.to + 1] = pre_local_variables[Fetched.from + 1]
        /\ \A k \in 1 .. Len(local_variables) :
              k # Fetched.to + 1 => local_variables[k] = pre_local_variables[k]
        /\ returned[1].jump.instructions = program_counter.instructions
        /\ returned[1].jump.next_instruction = program_counter.next_instruction + 1
        /\ returned[1].exit = None
        /\ returned[1].call = None

\* C14 witness: a Copy between two different locals that referred to
\* different data has returned.
CopyStepWitness ==
    /\ Interpreted("Copy")
    /\ returned # None
    /\ Fetched.from # Fetched.to
    /\ pre_local_variables[Fetched.from + 1] # pre_local_variables[Fetched.to + 1]

\* The data at the listed locals of the frame the call was given, in order.
RECURSIVE AtLocals(_)
AtLocals(ls) ==
    IF ls = <<>> THEN <<>>
    ELSE <<pre_local_variables[ls[1] + 1]>> \o AtLocals(Tail(ls))

AllInRange(ls) == \A k \in 1 .. Len(ls) : InRange(ls[k])

\* C15: InvokeStatic with every argument index in range returns a call
\* whose callee is SpellId(spellbook, spell, len(arguments)) with the
\* literal sigils of the instruction, whose arguments are the data at the
\* listed locals in order, duplicates included, and whose return_into is
\* result; the jump is the input program counter advanced by one, there is
\* no exit, and no local is modified.
InvokeStaticStep ==
    Interpreted("InvokeStatic") /\ AllInRange(Fetched.arguments) =>
        /\ returned # None
        /\ returned[1].call =
              Some(Call(SpellId(Fetched.spellbook, Fetched.spell,
                                Len(Fetched.arguments)),
                        AtLocals(Fetched.arguments), Fetched.result))
        /\ returned[1].jump =
              ProgramCounter(program_counter.instructions,
                             program_counter.next_instruction + 1)
        /\ returned[1].exit = None
        /\ local_variables = pre_local_variables

\* C15 witness: an InvokeStatic that lists the same local twice, in a frame
\* of two locals, has returned.
InvokeStaticStepWitness ==
    /\ Interpreted("InvokeStatic")
    /\ returned # None
    /\ Len(pre_local_variables) = 2
    /\ Len(Fetched.arguments) = 2
    /\ Fetched.arguments[1] = Fetched.arguments[2]
    /\ Fetched.spellbook # Fetched.spell

\* C16: InvokeDynamic with receiver and every argument index in range
\* returns a call whose callee is SpellId(enchantment of the datum at local
\* receiver, spell, 1 + len(arguments)), whose argument 0 is the receiver
\* datum followed by the data at the listed locals in order, and whose
\* return_into is result; the jump is the input program counter advanced
\* by one, there is no exit, and no local is modified.
InvokeDynamicStep ==
    /\ Interpreted("InvokeDynamic")
    /\ InRange(Fetched.receiver)
    /\ AllInRange(Fetched.arguments)
    =>
        /\ returned # None
        /\ returned[1].call =
              Some(Call(SpellId(mem[pre_local_variables[Fetched.receiver + 1]]
                                    .enchantment,
                                Fetched.spell, 1 + Len(Fetched.arguments)),
                        <<pre_local_variables[Fetched.receiver + 1]>>
                            \o AtLocals(Fetched.arguments),
                        Fetched.result))
        /\ returned[1].jump =
              ProgramCounter(program_counter.instructions,
                             program_counter.next_instruction + 1)
        /\ returned[1].exit = None
        /\ local_variables = pre_local_variables

\* C16 witness: an InvokeDynamic on a receiver of enchantment 1, with a
\* spell sigil other than that enchantment and an argument that is not the
\* receiver's datum, has returned.
InvokeDynamicStepWitness ==
    /\ Interpreted("InvokeDynamic")
    /\ returned # None
    /\ Len(Fetched.arguments) = 1
    /\ mem[pre_local_variables[Fetched.receiver + 1]].enchantment = 1
    /\ Fetched.spell = 0
    /\ pre_local_variables[Fetched.arguments[1] + 1]
          # pre_local_variables[Fetched.receiver + 1]

\* C17: Return{result} with result in range returns a mutation whose exit
\* is the datum at local result, with no call and with the input program
\* counter, unchanged, as its jump; no local is modified.
ReturnStep ==
    Interpreted("Return") /\ InRange(Fetched.result) =>
        /\ returned # None
        /\ returned[1].exit = Some(pre_local_variables[Fetched.result + 1])
        /\ returned[1].call = None
        /\ returned[1].jump = program_counter
        /\ local_variables = pre_local_variables

\* C17 witness: a Return of the second of two locals has returned.
ReturnStepWitness ==
    /\ Interpreted("Return")
    /\ returned # None
    /\ Fetched.result = 1
    /\ Len(pre_local_variables) = 2

\* The Locals an instruction names, and those among them that
\* interpret_instruction indexes the locals with.
NamedLocals(i) ==
    CASE i.op = "Copy" -> {i.from, i.to}
      [] i.op = "InvokeStatic" -> {i.result} \cup Range(i.arguments)
      [] i.op = "InvokeDynamic" ->
             {i.result, i.receiver} \cup Range(i.arguments)
      [] i.op = "Return" -> {i.result}
IndexedLocals(i) ==
    CASE i.op = "Copy" -> {i.from, i.to}
      [] i.op = "InvokeStatic" -> Range(i.arguments)
      [] i.op = "InvokeDynamic" -> {i.receiver} \cup Range(i.arguments)
      [] i.op = "Return" -> {i.result}

\* The call was given an instruction and has ended.
Stepped == \E op \in {"Copy", "InvokeStatic", "InvokeDynamic", "Return"} :
               Interpreted(op)

\* C18: for every instruction kind, if any local the instruction names
\* (from, to, result, receiver or an entry of arguments) is at least the
\* length of the frame's locals, interpret_instruction aborts instead of
\* returning a CallStackMutation.
OutOfRangeNamedIsFatal ==
    Stepped /\ (\E l \in NamedLocals(Fetched) : ~InRange(l)) =>
        panicked /\ returned = None

\* C18, amended: interpret_instruction aborts instead of returning when a
\* local it indexes the frame with (from, to, the result of Return,
\* receiver or an entry of arguments) is out of range, and only then; the
\* result of InvokeStatic and InvokeDynamic is not looked up: in or out of
\* range, it is handed on as return_into.
OutOfRangeIndexedIsFatal ==
    Stepped =>
        /\ (\E l \in IndexedLocals(Fetched) : ~InRange(l)) <=>
              panicked /\ returned = None
        /\ panicked => local_variables = pre_local_variables
        /\ returned # None /\ Fetched.op \in {"InvokeStatic", "InvokeDynamic"} =>
              returned[1].call[1].return_into = Fetched.result

\* C18 witness: an InvokeDynamic whose receiver and first argument are in
\* range and whose second argument is not has panicked.
OutOfRangeIndexedIsFatalWitness ==
    /\ Interpreted("InvokeDynamic")
    /\ panicked
    /\ InRange(Fetched.receiver)
    /\ Len(Fetched.arguments) = 2
    /\ InRange(Fetched.arguments[1])
    /\ ~InRange(Fetched.arguments[2])

\* C19: in every state reachable by allocate, clone, drop and
\* collect_garbage, every datum of the heap has mark = false: each
\* collect_garbage clears every mark it set before it returns.
MarksTransient == \A a \in Range(data) : ~mem[a].mark

HandlesHeld(locals, ret, a) == Refs(locals, a) + Refs(Carried(ret), a)

\* Every datum that a local or the returned mutation refers to is rooted.
HeldAreRooted ==
    \A a \in Addr :
        HandlesHeld(local_variables, returned, a) > 0 => mem[a].roots > 0

\* A call of interpret_instruction that returns changes the roots of every
\* datum by the handles to it in the mutation, plus the local slots that
\* refer to it now, minus the local slots that referred to it before.
RootsStep ==
    returned = None /\ returned' # None =>
        \A a \in Addr :
            mem'[a].roots - mem[a].roots =
                Refs(Carried(returned'), a) + Refs(local_variables', a)
                    - Refs(local_variables, a)

\* C21: interpret_instruction conserves root counts: when it returns, the
\* roots of every datum have changed by exactly the number of handles to
\* it in the mutation's exit and call.arguments, plus the number of local
\* slots that now refer to it, minus the number that referred to it
\* before; no temporary handle of the step leaves a root behind or takes
\* one away, so a datum that a local or the mutation refers to has
\* roots > 0.
RootsConserved == []HeldAreRooted /\ [][RootsStep]_vars

\* C21 witness: an InvokeDynamic that lists its receiver's local among its
\* arguments has returned, and the receiver's datum has two roots more
\* than local slots referred to it before.
RootsConservedWitness ==
    /\ Interpreted("InvokeDynamic")
    /\ returned # None
    /\ \E k \in 1 .. Len(Fetched.arguments) :
          Fetched.arguments[k] = Fetched.receiver
    /\ Len(Fetched.arguments) = 1
    /\ LET a == pre_local_variables[Fetched.receiver + 1]
       IN  mem[a].roots = Refs(pre_local_variables, a) + 2

====
